---- MODULE Spec2Model ----
(***************************************************************************)
(* rollup-tui: the sliding-window metrics buffer (src/block_metrics.rs)    *)
(* and the per-network polling driver that feeds it                        *)
(* (src/block_streamer.rs).                                                *)
(*                                                                         *)
(* Four specifications share the variables:                                *)
(*   BufferSpec  one BlockMetricsBuffer under every sequence of add_block, *)
(*               update and get_metrics calls, with any block contents and *)
(*               any (non-decreasing) clock readings;                      *)
(*   DrainSpec   that buffer when blocks stop arriving after a minute      *)
(*               while snapshots go on being taken;                        *)
(*   Spec        one BlockStreamer task running start(): the bootstrap     *)
(*               fetch, then the fetch / snapshot / send / sleep loop.     *)
(*               A send to a live Receiver completes in one step there;    *)
(*               the task waiting for room in the channel is that step not *)
(*               being taken yet;                                          *)
(*   ChannelSpec the bounded channel of main(): the tasks of two networks  *)
(*               at their send, and the consumer's recv() loop.            *)
(*                                                                         *)
(* u64 values.  TLC's integers are 32 bits wide, so a u64 is modelled by   *)
(* the representative of its residue mod 2^64 that lies nearest to 0: a    *)
(* negative integer -k stands for 2^64 - k.  Wrapping subtraction and      *)
(* addition are then plain integer arithmetic, and the unsigned order is   *)
(* ULt below.  Every value of the model lies within a few thousand of 0 or *)
(* of 2^64, so the representatives never meet.                             *)
(*                                                                         *)
(* Integer overflow.  Rust panics on overflow when overflow checks are     *)
(* compiled in (the dev profile) and wraps otherwise (the release          *)
(* profile): overflow_checks is chosen in Init and both builds are         *)
(* explored.                                                               *)
(*                                                                         *)
(* f64 values.  A rate is the exact quotient [num, den] of the two u64     *)
(* operands converted to f64; den = 0 is the IEEE result of a division by  *)
(* zero (an infinity, or NaN for 0/0).                                     *)
(***************************************************************************)
EXTENDS Integers, Sequences, FiniteSets, TLC

VARIABLES
    buffer,          \* BlockMetricsBuffer.buffer: VecDeque<BlockInfo>, front first
    seen,            \* BlockMetricsBuffer.seen: HashSet<u64>
    total_txs,       \* BlockMetricsBuffer.total_txs
    total_gas,       \* BlockMetricsBuffer.total_gas
    total_data,      \* BlockMetricsBuffer.total_data
    clock,           \* the last value Utc::now().timestamp() returned
    overflow_checks, \* TRUE: the build panics on integer overflow; FALSE: it wraps
    panicked,        \* TRUE once a panic has unwound the caller
    last_call,       \* the buffer operation that ran last, with the path it took
    evicted,         \* how many records that operation's update() removed
    latest,          \* Option<NetworkMetrics>: what the last get_metrics returned
    snapshot_time,   \* the last clock reading that get_metrics call took (0: no snapshot)
    pc,              \* BlockStreamer task: position in start() / get_next_batch()
    call_site,       \* which get_next_batch call is running: "bootstrap" or "loop"
    last_block,      \* start(): let mut last_block: Option<u64>
    latest_block_number, \* get_next_batch(): Some(head) the query returned, None if it failed
    requested,       \* get_next_batch(): the block numbers get_block is called with
    blocks,          \* get_next_batch(): the sorted Vec<Block> its last batch handed to add_block
    rx_alive,        \* TRUE while the channel's Receiver has not been dropped
    channel,         \* ChannelSpec: the messages the channel holds, oldest first
    sent,            \* ChannelSpec: per network, how many sends have completed
    received,        \* ChannelSpec: per network, how many messages recv() has returned
    task_pc          \* ChannelSpec: per network, the position of its task in start()

bufvars == <<buffer, seen, total_txs, total_gas, total_data>>
chanvars == <<channel, sent, received, task_pc>>
drivervars == <<pc, call_site, last_block, latest_block_number, requested, blocks,
                rx_alive, chanvars>>
vars == <<buffer, seen, total_txs, total_gas, total_data, clock, overflow_checks,
          panicked, last_call, evicted, latest, snapshot_time, pc, call_site, last_block,
          latest_block_number, requested, blocks, rx_alive, channel, sent, received,
          task_pc>>

----------------------------------------------------------------------------
(* Bounds of the model *)

\* block numbers 1..MaxBn are offered to the buffer in BufferSpec
MaxBn == 2
\* clock readings are 0, 10, 30 and 60, 65, ..., 60 + 5 * MaxTick seconds
MaxTick == 2

\* the chain heads the RPC reports are 3, 9 and 12..MaxHead
MaxHead == 12
\* get_block returns a block for the MaxServed highest numbers of a batch at most
MaxServed == 2
\* one batch returns no more new well-formed blocks than fit a window of MaxWindow
MaxWindow == 1

\* in ChannelSpec a task completes MaxSent sends at most
MaxSent == 6

----------------------------------------------------------------------------
(* Option<T> *)

None == << >>
Some(v) == <<v>>
IsSome(o) == o # None
Unwrap(o) == o[1]

(* u64 arithmetic on representatives (see the header) *)

\* a < b in the unsigned order
ULt(a, b) == IF (a < 0) = (b < 0) THEN a < b ELSE b < 0
UGe(a, b) == ~ULt(a, b)
UMax(a, b) == IF ULt(a, b) THEN b ELSE a
\* a - b leaves the u64 range
SubOverflows(a, b) == ULt(a, b)
\* a + 1 leaves the u64 range (a = u64::MAX)
IncOverflows(a) == a = -1

(* f64 *)

Div(n, d) == [num |-> n, den |-> d]
Zero == [num |-> 0, den |-> 1]
IsFinite(r) == r.den # 0
IsZero(r) == r.den # 0 /\ r.num = 0
\* r = n / d as real numbers, d # 0
RateIs(r, n, d) == r.den # 0 /\ r.num * d = n * r.den
\* r < s for finite, non-negative rates with positive divisors
RateLt(r, s) == r.num * s.den < s.num * r.den

----------------------------------------------------------------------------
(* src/block_metrics.rs *)

WINDOW_SECONDS == 60

\* the fields of self that the operations change
Self == [buffer |-> buffer, seen |-> seen, total_txs |-> total_txs,
         total_gas |-> total_gas, total_data |-> total_data]

\* NetworkMetrics { network, ..Default::default() }
DefaultMetrics == [block |-> 0, gps |-> Zero, tps |-> Zero, dps |-> Zero]

SizeOr0(block) == IF IsSome(block.size) THEN Unwrap(block.size) ELSE 0

\* update(), the loop's test: current_time - front_block.timestamp >= WINDOW_SECONDS
ExpiredOffByOne(current_time, timestamp) ==
    ULt(WINDOW_SECONDS, current_time - timestamp)
Expired(current_time, timestamp) ==
    UGe(current_time - timestamp, WINDOW_SECONDS)

\* update(), the body of the loop: pop_front and the subtractions
PopFrontKeepsTotals(self) ==
    [self EXCEPT !.buffer = Tail(self.buffer),
                 !.seen = self.seen \ {Head(self.buffer).bn}]
PopFrontKeepsSeen(self) ==
    LET block == Head(self.buffer) IN
    [buffer |-> Tail(self.buffer),
     seen |-> self.seen,
     total_txs |-> self.total_txs - block.txs,
     total_gas |-> self.total_gas - block.gas,
     total_data |-> self.total_data - SizeOr0(block)]
PopFront(self) ==
    LET block == Head(self.buffer) IN
    [buffer |-> Tail(self.buffer),
     seen |-> self.seen \ {block.bn},
     total_txs |-> self.total_txs - block.txs,
     total_gas |-> self.total_gas - block.gas,
     total_data |-> self.total_data - SizeOr0(block)]

\* update() at clock reading current_time: [self, panic]
RECURSIVE update(_, _)
update(self, current_time) ==
    IF self.buffer = << >>
    THEN [self |-> self, panic |-> FALSE]
    ELSE LET front_block == Head(self.buffer) IN
         IF overflow_checks /\ SubOverflows(current_time, front_block.timestamp)
         THEN [self |-> self, panic |-> TRUE]
         ELSE IF Expired(current_time, front_block.timestamp)
              THEN update(PopFront(self), current_time)
              ELSE [self |-> self, panic |-> FALSE]

\* add_block_info(), after the seen test and update(): push_back and the additions
PushBack(self, block) ==
    [buffer |-> Append(self.buffer, block),
     seen |-> self.seen \cup {block.bn},
     total_txs |-> self.total_txs + block.txs,
     total_gas |-> self.total_gas + block.gas,
     total_data |-> self.total_data + SizeOr0(block)]

\* add_block_info(), the early return: self.seen.contains(&block.bn)
NeverSeen(self, block) == FALSE
AlreadySeen(self, block) == block.bn \in self.seen

\* add_block_info(block) at clock reading current_time: [self, panic, path, popped]
\* (path: "seen" is the early return, which does not read the clock;
\* popped: the records update() removed)
add_block_info(self, block, current_time) ==
    IF AlreadySeen(self, block)
    THEN [self |-> self, panic |-> FALSE, path |-> "seen", popped |-> 0]
    ELSE LET u == update(self, current_time)
             n == Len(self.buffer) - Len(u.self.buffer)
         IN  IF u.panic
             THEN [self |-> u.self, panic |-> TRUE, path |-> "panic", popped |-> n]
             ELSE [self |-> PushBack(u.self, block), panic |-> FALSE,
                   path |-> "pushed", popped |-> n]

\* BlockInfo::try_from_block.  A raw Block carries header.number (an Option),
\* header.gas_used (a u128, modelled by gas_lt_u64_max, the outcome of
\* gas < u64::MAX as u128, and gas_used, its low 64 bits), size (an Option, its low
\* limb), header.timestamp and the number of transactions.
try_from_block_unguarded(block) ==
    IF IsSome(block.number)
    THEN Some([bn |-> Unwrap(block.number), gas |-> block.gas_used, size |-> block.size,
               timestamp |-> block.timestamp, txs |-> block.txs])
    ELSE None
try_from_block(block) ==
    IF IsSome(block.number) /\ block.gas_lt_u64_max
    THEN Some([bn |-> Unwrap(block.number), gas |-> block.gas_used, size |-> block.size,
               timestamp |-> block.timestamp, txs |-> block.txs])
    ELSE None

\* add_block(block)
add_block(self, block, current_time) ==
    LET block_info == try_from_block(block) IN
    IF IsSome(block_info)
    THEN add_block_info(self, Unwrap(block_info), current_time)
    ELSE [self |-> self, panic |-> FALSE, path |-> "dropped", popped |-> 0]

\* get_metrics(), the guard of the first match arm
HasSpan(self) ==
    /\ self.buffer # << >>
    /\ ULt(Head(self.buffer).timestamp, self.buffer[Len(self.buffer)].timestamp)

\* get_metrics(), the first match arm at the second clock reading
Metrics(self, now) ==
    LET first == Head(self.buffer)
        last == self.buffer[Len(self.buffer)]
        span == now - first.timestamp
    IN  [block |-> last.bn,
         gps |-> Div(self.total_gas, span),
         tps |-> Div(self.total_txs, span),
         dps |-> Div(self.total_data, span)]

\* get_metrics() without its first statement, self.update()
get_metrics_without_update(self, t1, t2) ==
    IF HasSpan(self)
    THEN IF overflow_checks /\ SubOverflows(t2, Head(self.buffer).timestamp)
         THEN [self |-> self, panic |-> TRUE, ret |-> None, read2 |-> TRUE]
         ELSE [self |-> self, panic |-> FALSE, ret |-> Some(Metrics(self, t2)),
               read2 |-> TRUE]
    ELSE [self |-> self, panic |-> FALSE, ret |-> Some(DefaultMetrics), read2 |-> FALSE]

\* get_metrics() with update()'s clock reading t1 and the arm's reading t2:
\* [self, panic, ret, read2] (read2: the second reading was taken)
get_metrics(self, t1, t2) ==
    LET u == update(self, t1) IN
    IF u.panic
    THEN [self |-> u.self, panic |-> TRUE, ret |-> None, read2 |-> FALSE]
    ELSE IF HasSpan(u.self)
         THEN IF overflow_checks /\ SubOverflows(t2, Head(u.self.buffer).timestamp)
              THEN [self |-> u.self, panic |-> TRUE, ret |-> None, read2 |-> TRUE]
              ELSE [self |-> u.self, panic |-> FALSE,
                    ret |-> Some(Metrics(u.self, t2)), read2 |-> TRUE]
         ELSE [self |-> u.self, panic |-> FALSE,
               ret |-> Some(DefaultMetrics), read2 |-> FALSE]

----------------------------------------------------------------------------
(* src/main.rs *)

\* let (tx, rx) = channel(8)
ChannelCapacity == 8
\* the networks of config/networks.json: main() spawns one task for each
Networks == {"a", "b"}

----------------------------------------------------------------------------
(* The buffer under arbitrary calls: BufferSpec *)

\* the values Utc::now().timestamp() takes
ClockValues == {0, 10, 30} \cup {WINDOW_SECONDS + 5 * k : k \in 0..MaxTick}
\* what a later reading in the same call may return
LaterReads == {t \in ClockValues : t >= clock}

\* header.timestamp of the blocks offered
TsValues == {0, 10}
\* gas used, transaction count and size of the blocks offered
Contents == {[gas |-> 100, txs |-> 2, size |-> Some(1000)],
             [gas |-> 200, txs |-> 3, size |-> None]}
RawBlocks ==
    {[number |-> Some(n), gas_lt_u64_max |-> TRUE, gas_used |-> c.gas, size |-> c.size,
      timestamp |-> ts, txs |-> c.txs] : n \in 1..MaxBn, c \in Contents, ts \in TsValues}
    \cup {[number |-> None, gas_lt_u64_max |-> TRUE, gas_used |-> 100,
           size |-> Some(1000), timestamp |-> 0, txs |-> 2]}
    \cup {[number |-> Some(1), gas_lt_u64_max |-> FALSE, gas_used |-> 0,
           size |-> Some(1000), timestamp |-> 0, txs |-> 2]}

\* the buffer's fields take the values of record s
SetSelf(s) ==
    /\ buffer' = s.buffer
    /\ seen' = s.seen
    /\ total_txs' = s.total_txs
    /\ total_gas' = s.total_gas
    /\ total_data' = s.total_data

\* BlockMetricsBuffer::new
InitBuffer ==
    /\ buffer = << >>
    /\ seen = {}
    /\ total_txs = 0
    /\ total_gas = 0
    /\ total_data = 0
    /\ clock = 0
    /\ overflow_checks \in BOOLEAN
    /\ panicked = FALSE
    /\ last_call = <<"new", "done">>
    /\ evicted = 0
    /\ latest = None
    /\ snapshot_time = 0

InitIdleDriver ==
    /\ pc = "idle"
    /\ call_site = "bootstrap"
    /\ last_block = None
    /\ latest_block_number = None
    /\ requested = {}
    /\ blocks = << >>
    /\ rx_alive = TRUE

\* the channel and the tasks of ChannelSpec, not running
InitIdleChannel ==
    /\ channel = << >>
    /\ sent = [n \in Networks |-> 0]
    /\ received = [n \in Networks |-> 0]
    /\ task_pc = [n \in Networks |-> "idle"]

BufferInit == InitBuffer /\ InitIdleDriver /\ InitIdleChannel

\* wall-clock time passes
Advance ==
    /\ ~panicked
    /\ \E t \in ClockValues : t > clock /\ clock' = t
    /\ UNCHANGED <<bufvars, overflow_checks, panicked, last_call, evicted, latest,
                   snapshot_time, drivervars>>

\* add_block(block); update() reads the clock unless the block is dropped or seen
AddBlock(block) ==
    \E r \in {add_block(Self, block, clock)} :
    /\ SetSelf(r.self)
    /\ panicked' = r.panic
    /\ last_call' = <<"add_block", r.path>>
    /\ evicted' = r.popped
    /\ latest' = None
    /\ snapshot_time' = 0

CallAddBlock ==
    /\ ~panicked
    /\ \E block \in RawBlocks : AddBlock(block)
    /\ UNCHANGED <<clock, overflow_checks, drivervars>>

\* update()
Update ==
    \E r \in {update(Self, clock)} :
    /\ SetSelf(r.self)
    /\ panicked' = r.panic
    /\ last_call' = <<"update", IF r.panic THEN "panic" ELSE "done">>
    /\ evicted' = Len(buffer) - Len(r.self.buffer)
    /\ latest' = None
    /\ snapshot_time' = 0

CallUpdate ==
    /\ ~panicked
    /\ Update
    /\ UNCHANGED <<clock, overflow_checks, drivervars>>

\* get_metrics(): update() reads the clock, and the first match arm reads it again
\* (t2, not earlier than the first reading)
GetMetrics(t2) ==
    \E r \in {get_metrics(Self, clock, t2)} :
    \* a reading that is not taken is not a choice
    /\ r.read2 \/ t2 = clock
    /\ SetSelf(r.self)
    /\ clock' = t2
    /\ panicked' = r.panic
    /\ last_call' = <<"get_metrics", IF r.panic THEN "panic" ELSE "done">>
    /\ evicted' = Len(buffer) - Len(r.self.buffer)
    /\ latest' = r.ret
    /\ snapshot_time' = IF r.ret = None THEN 0 ELSE t2

CallGetMetrics ==
    /\ ~panicked
    /\ \E t2 \in LaterReads : GetMetrics(t2)
    /\ UNCHANGED <<overflow_checks, drivervars>>

BufferNext == Advance \/ CallAddBlock \/ CallUpdate \/ CallGetMetrics

BufferSpec == BufferInit /\ [][BufferNext]_vars

\* The buffer of a task whose RPC stops delivering new blocks: blocks are ingested
\* during the first minute only, while the wall clock goes on and the loop of
\* start() calls get_metrics in every iteration
DrainBlocks == {block \in RawBlocks : block.gas_used = 100}

EarlyAddBlock ==
    /\ ~panicked
    /\ clock < WINDOW_SECONDS
    /\ \E block \in DrainBlocks : AddBlock(block)
    /\ UNCHANGED <<clock, overflow_checks, drivervars>>

DrainNext == Advance \/ EarlyAddBlock \/ CallGetMetrics

DrainSpec ==
    BufferInit /\ [][DrainNext]_vars /\ WF_vars(Advance) /\ WF_vars(CallGetMetrics)

----------------------------------------------------------------------------
(* src/block_streamer.rs *)

\* get_next_batch(): the catch-up limit in latest_block_number - 10
CatchUpLimit == 10

RECURSIVE add_blocks(_, _, _, _)
\* for block in blocks { self.metrics.add_block(&block) } from the i-th block of
\* batch on, at clock reading current_time: [self, panic, path, popped] of the last
\* call made (last: what the call before the i-th left)
add_blocks(last, batch, current_time, i) ==
    IF i > Len(batch) \/ last.panic
    THEN last
    ELSE add_blocks(add_block(last.self, batch[i], current_time), batch,
                    current_time, i + 1)

\* get_next_batch(), on Err(_) of get_block_number: return previous_block
ForgetCursor(previous_block) == None
CursorAfterFailedQuery(previous_block) == previous_block

\* get_next_batch(), the last line: Some(latest_block_number)
CursorOfLastUsable(previous_block, head) ==
    IF last_call' = <<"add_block", "pushed">> THEN Some(head) ELSE previous_block
CursorAfterBatch(previous_block, head) == Some(head)

\* previous_block.unwrap_or_default().max(latest_block_number - 10), then
\* previous_block + 1 ..= latest_block_number: [panic, range]
FetchRange(previous_block, head) ==
    LET prev == IF IsSome(previous_block) THEN Unwrap(previous_block) ELSE 0
        floor == head - CatchUpLimit
        from == UMax(prev, floor)
        start == from + 1
    IN  IF overflow_checks /\ (SubOverflows(head, CatchUpLimit) \/ IncOverflows(from))
        THEN [panic |-> TRUE, range |-> {}]
        ELSE [panic |-> FALSE,
              range |-> IF ULt(head, start) THEN {} ELSE start..head]

\* blocks.sort_by_key(|block| block.header.number): Option<u64> orders None first;
\* the sort is stable
KeyGe(a, b) == b = None \/ (a # None /\ ~ULt(Unwrap(a), Unwrap(b)))
KeyLe(a, b) == a = None \/ (b # None /\ ~ULt(Unwrap(b), Unwrap(a)))
RECURSIVE InsertByKey(_, _)
\* block inserted into the sorted s behind every block whose key is not greater
InsertByKey(s, block) ==
    IF s = << >> THEN <<block>>
    ELSE IF KeyLe(Head(s).number, block.number)
         THEN <<Head(s)>> \o InsertByKey(Tail(s), block)
         ELSE <<block>> \o s
RECURSIVE SortByKey(_)
SortByKey(s) ==
    IF s = << >> THEN << >>
    ELSE InsertByKey(SortByKey(SubSeq(s, 1, Len(s) - 1)), s[Len(s)])

RECURSIVE Collect(_, _)
\* join_all(..).into_iter().filter_map(Result::ok).flatten().collect(): the blocks of
\* the responses, in the order of the requests; response is a function from the
\* block numbers whose fetch returned Ok(Some(block)) to that block, every other
\* request having returned Err(_) or Ok(None)
Collect(range, response) ==
    IF range = {} THEN << >>
    ELSE LET bn == CHOOSE x \in range : \A y \in range : x <= y
             rest == Collect(range \ {bn}, response)
         IN  IF bn \in DOMAIN response THEN <<response[bn]>> \o rest ELSE rest

----------------------------------------------------------------------------
(* One BlockStreamer task: Spec *)

HeadValues == {3, 9} \cup (12..MaxHead)

\* the values Utc::now().timestamp() takes while the task runs
TaskClockValues == {0, 10, 65}

\* what get_block(bn) may return as a block: a well-formed block with either
\* timestamp, a block without a number, a block whose gas_used is u64::MAX or more
FetchedKinds == {"ts0", "ts10", "no_number", "gas_overflow"}
FetchedBlock(bn, kind) ==
    [number |-> IF kind = "no_number" THEN None ELSE Some(bn),
     gas_lt_u64_max |-> kind # "gas_overflow",
     gas_used |-> IF kind = "gas_overflow" THEN 0 ELSE 100,
     size |-> Some(1000),
     timestamp |-> IF kind = "ts10" THEN 10 ELSE 0,
     txs |-> 2]

\* the requests that may return a block: every other one returns Err(_) or Ok(None)
Served(range) == {bn \in range : Cardinality({x \in range : x > bn}) < MaxServed}
\* the sets of requests that return a block
Answered(range) == SUBSET Served(range)
\* the blocks of a response that add_block would append to the window
Fresh(response) ==
    {bn \in DOMAIN response :
        /\ try_from_block(response[bn]) # None
        /\ Unwrap(try_from_block(response[bn])).bn \notin seen}

Running == ~panicked /\ pc # "exited"

\* BlockStreamer::new, and main() holding the Receiver
InitDriver ==
    /\ pc = "query"
    /\ call_site = "bootstrap"
    /\ last_block = None
    /\ latest_block_number = None
    /\ requested = {}
    /\ blocks = << >>
    /\ rx_alive = TRUE

Init == InitBuffer /\ InitDriver /\ InitIdleChannel

bufstate == <<bufvars, last_call, evicted, latest, snapshot_time>>

\* where get_next_batch returns to: the bootstrap call is followed by the loop's
\* first call, the loop's call by get_metrics
ReturnToSnapshot(cursor) ==
    /\ last_block' = cursor
    /\ requested' = {}
    /\ pc' = "metrics"
    /\ call_site' = "loop"
Return(cursor) ==
    /\ last_block' = cursor
    /\ requested' = {}
    /\ pc' = IF call_site = "bootstrap" THEN "query" ELSE "metrics"
    /\ call_site' = "loop"

\* time passes while the task runs
Tick ==
    /\ Running
    /\ \E t \in TaskClockValues : t > clock /\ clock' = t
    /\ UNCHANGED <<bufstate, overflow_checks, panicked, drivervars>>

\* get_block_number() fails: get_next_batch returns previous_block
HeadQueryFails ==
    /\ Running
    /\ pc = "query"
    /\ Return(CursorAfterFailedQuery(last_block))
    /\ latest_block_number' = None
    /\ blocks' = << >>
    /\ UNCHANGED <<bufstate, clock, overflow_checks, panicked, rx_alive, chanvars>>

\* get_block_number() returns head: the range is computed and every block of it
\* is requested
HeadQueryOk ==
    /\ Running
    /\ pc = "query"
    /\ \E head \in HeadValues :
         LET f == FetchRange(last_block, head) IN
         /\ latest_block_number' = Some(head)
         /\ panicked' = f.panic
         /\ requested' = f.range
         /\ pc' = IF f.panic THEN pc ELSE "join"
    /\ blocks' = << >>
    /\ UNCHANGED <<bufstate, clock, overflow_checks, call_site, last_block, rx_alive,
                   chanvars>>

\* what join_all may return for the requests of range: a function from the block
\* numbers whose fetch returned Ok(Some(block)) to that block
Responses(range) ==
    UNION {{[bn \in ok |-> FetchedBlock(bn, kind[bn])] : kind \in [ok -> FetchedKinds]} :
           ok \in Answered(range)}

\* the buffer before the first add_block of a batch
BeforeBatch == [self |-> Self, panic |-> FALSE, path |-> "none", popped |-> 0]

\* get_next_batch() from the return of join_all on: the blocks of response are
\* collected, sorted and handed to add_block one after the other, and
\* Some(latest_block_number) is returned
IngestBatch(response) ==
    /\ Len(buffer) + Cardinality(Fresh(response)) <= MaxWindow
    /\ \E sorted \in {SortByKey(Collect(requested, response))} :
         \E r \in {add_blocks(BeforeBatch, sorted, clock, 1)} :
           /\ blocks' = sorted
           /\ SetSelf(r.self)
           /\ panicked' = r.panic
           /\ IF sorted = << >>
              THEN UNCHANGED <<last_call, evicted>>
              ELSE /\ last_call' = <<"add_block", r.path>>
                   /\ evicted' = r.popped
           /\ latest' = None
           /\ snapshot_time' = 0
           /\ IF r.panic
              THEN UNCHANGED <<pc, call_site, last_block, requested>>
              ELSE Return(CursorAfterBatch(last_block, Unwrap(latest_block_number)))
    /\ UNCHANGED <<clock, overflow_checks, latest_block_number, rx_alive, chanvars>>

\* join_all returns and the batch is ingested.  Nothing is awaited in between, so
\* the task runs this as one step, and the calls of the loop read the same second
\* of the clock.
JoinAll ==
    /\ Running
    /\ pc = "join"
    /\ \E response \in Responses(requested) : IngestBatch(response)

\* let latest = self.metrics.get_metrics()
TakeSnapshot ==
    /\ Running
    /\ pc = "metrics"
    /\ \E t2 \in {t \in TaskClockValues : t >= clock} : GetMetrics(t2)
    /\ pc' = IF panicked' THEN pc ELSE "send"
    /\ blocks' = << >>
    /\ UNCHANGED <<overflow_checks, call_site, last_block, latest_block_number,
                   requested, rx_alive, chanvars>>

\* self.tx.send(BlockMessage::UpdateNetwork(latest)).await? with the Receiver alive:
\* the snapshot is moved into the channel
SendOk ==
    /\ Running
    /\ pc = "send"
    /\ rx_alive
    /\ latest' = None
    /\ snapshot_time' = 0
    /\ pc' = "sleep"
    /\ UNCHANGED <<bufvars, last_call, evicted, clock, overflow_checks, panicked,
                   call_site, last_block, latest_block_number, requested, blocks,
                   rx_alive, chanvars>>

\* the send fails because the Receiver is gone: start() returns the error
SendFails ==
    /\ Running
    /\ pc = "send"
    /\ ~rx_alive
    /\ latest' = None
    /\ snapshot_time' = 0
    /\ pc' = "exited"
    /\ UNCHANGED <<bufvars, last_call, evicted, clock, overflow_checks, panicked,
                   call_site, last_block, latest_block_number, requested, blocks,
                   rx_alive, chanvars>>

\* time::sleep(POLL_INTERVAL).await is over
Wake ==
    /\ Running
    /\ pc = "sleep"
    /\ pc' = "query"
    /\ UNCHANGED <<bufstate, clock, overflow_checks, panicked, call_site, last_block,
                   latest_block_number, requested, blocks, rx_alive, chanvars>>

\* the consumer ends and drops the Receiver
DropReceiver ==
    /\ rx_alive
    /\ rx_alive' = FALSE
    /\ UNCHANGED <<bufstate, clock, overflow_checks, panicked, pc, call_site,
                   last_block, latest_block_number, requested, blocks, chanvars>>

Next ==
    \/ Tick
    \/ HeadQueryFails
    \/ HeadQueryOk
    \/ JoinAll
    \/ TakeSnapshot
    \/ SendOk
    \/ SendFails
    \/ Wake
    \/ DropReceiver

Spec == Init /\ [][Next]_vars

----------------------------------------------------------------------------
(* The channel between the tasks and the consumer: ChannelSpec *)

\* what a step of ChannelSpec leaves alone
idlevars == <<bufstate, clock, overflow_checks, panicked, pc, call_site, last_block,
              latest_block_number, requested, blocks>>

ChannelInit ==
    /\ InitBuffer
    /\ InitIdleDriver
    /\ channel = << >>
    /\ sent = [n \in Networks |-> 0]
    /\ received = [n \in Networks |-> 0]
    /\ task_pc = [n \in Networks |-> "loop"]

\* Sender::send completes only when the channel has a free slot
UnboundedChannel(queue) == TRUE
HasCapacity(queue) == Len(queue) < ChannelCapacity

\* the task of network n has fetched its batch and computed the snapshot it will
\* send, its (sent[n] + 1)-th
TaskSnapshot(n) ==
    /\ task_pc[n] = "loop"
    /\ sent[n] < MaxSent
    /\ task_pc' = [task_pc EXCEPT ![n] = "send"]
    /\ UNCHANGED <<channel, sent, received, rx_alive, idlevars>>

\* self.tx.send(..).await? completes: the message is queued behind the others, and
\* the task sleeps and starts its next iteration
TaskSendOk(n) ==
    /\ task_pc[n] = "send"
    /\ rx_alive
    /\ HasCapacity(channel)
    /\ channel' = Append(channel, [network |-> n, seq |-> sent[n] + 1])
    /\ sent' = [sent EXCEPT ![n] = @ + 1]
    /\ task_pc' = [task_pc EXCEPT ![n] = "loop"]
    /\ UNCHANGED <<received, rx_alive, idlevars>>

\* the send returns an error because the Receiver is gone: start() returns it
TaskSendFails(n) ==
    /\ task_pc[n] = "send"
    /\ ~rx_alive
    /\ task_pc' = [task_pc EXCEPT ![n] = "exited"]
    /\ UNCHANGED <<channel, sent, received, rx_alive, idlevars>>

\* while let Some(message) = rx.recv().await: the oldest message is taken
Recv ==
    /\ rx_alive
    /\ channel # << >>
    /\ received' = [received EXCEPT ![Head(channel).network] = @ + 1]
    /\ channel' = Tail(channel)
    /\ UNCHANGED <<sent, task_pc, rx_alive, idlevars>>

\* the consumer ends: the Receiver is dropped with the messages it still holds
ChannelClose ==
    /\ rx_alive
    /\ rx_alive' = FALSE
    /\ channel' = << >>
    /\ UNCHANGED <<sent, received, task_pc, idlevars>>

ChannelNext ==
    \/ \E n \in Networks : TaskSnapshot(n)
    \/ \E n \in Networks : TaskSendOk(n)
    \/ \E n \in Networks : TaskSendFails(n)
    \/ Recv
    \/ ChannelClose

ChannelSpec == ChannelInit /\ [][ChannelNext]_vars

----------------------------------------------------------------------------
(* Properties of the buffer, checked under BufferSpec *)

RECURSIVE SumOver(_, _)
\* the sum of field f over the records of sequence s
SumOver(s, f) == IF s = << >> THEN 0 ELSE Head(s)[f] + SumOver(Tail(s), f)
RECURSIVE SumSizes(_)
\* the sum of the sizes of the records of s, an absent size counting 0
SumSizes(s) ==
    IF s = << >> THEN 0
    ELSE (IF Head(s).size = None THEN 0 ELSE Head(s).size[1]) + SumSizes(Tail(s))
RECURSIVE Keep(_, _)
\* the records of s that are not yet WINDOW_SECONDS old at time now, in order
Keep(s, now) ==
    IF s = << >> THEN << >>
    ELSE IF now - Head(s).timestamp >= WINDOW_SECONDS
         THEN Keep(Tail(s), now)
         ELSE <<Head(s)>> \o Keep(Tail(s), now)
\* the test of the eviction loop on a 64-bit unsigned difference: a timestamp later
\* than now makes the difference wrap to a value far above the window length
U64DiffReachesWindow(now, ts) == IF now >= ts THEN now - ts >= WINDOW_SECONDS ELSE TRUE
NonDecreasingTimestamps(s) ==
    \A i \in 1..Len(s) : \A j \in i..Len(s) : s[i].timestamp <= s[j].timestamp
Snapshot == latest[1]
AllRatesZero(m) == IsZero(m.gps) /\ IsZero(m.tps) /\ IsZero(m.dps)
AllRatesFinite(m) == IsFinite(m.gps) /\ IsFinite(m.tps) /\ IsFinite(m.dps)

\* C1: after any sequence of add_block, update and get_metrics calls, total_gas,
\* total_txs and total_data each equal the sum of gas, txs and size (an absent size
\* counting 0) over exactly the records held in the buffer.
C1_TotalsAreSumsOverBuffer ==
    /\ total_gas = SumOver(buffer, "gas")
    /\ total_txs = SumOver(buffer, "txs")
    /\ total_data = SumSizes(buffer)
\* a call has evicted records and left others, one of them without a size
C1_Witness ==
    /\ evicted > 0
    /\ buffer # << >>
    /\ \E i \in 1..Len(buffer) : buffer[i].size = None

\* C2: ingesting a record whose block number is already in the dedup set changes
\* neither the record sequence, nor the dedup set, nor a running total, and evicts
\* nothing, whatever the window and the clock.
C2_DuplicateIngestIsNoOp ==
    [][\A block \in RawBlocks :
          (/\ block.number # None
           /\ block.gas_lt_u64_max
           /\ block.number[1] \in seen
           /\ AddBlock(block))
          => (UNCHANGED bufvars /\ evicted' = 0)]_vars
\* a duplicate was ingested while the head record was due for eviction
C2_Witness ==
    /\ last_call = <<"add_block", "seen">>
    /\ buffer # << >>
    /\ clock - Head(buffer).timestamp >= WINDOW_SECONDS

\* C3 as claimed: after eviction at time now the retained records are exactly the
\* previously held records with now - timestamp < 60, also when the timestamps are
\* not in arrival order.  Stated here on windows none of whose timestamps is later
\* than now, where the unsigned subtraction is exact.
C3_EvictsExactlyTheExpired ==
    [][(/\ Update
        /\ ~panicked'
        /\ \A i \in 1..Len(buffer) : buffer[i].timestamp <= clock)
       => buffer' = Keep(buffer, clock)]_vars
\* C3 amended: after eviction has run to completion at time now, the removed records
\* are exactly the longest prefix, in arrival order, of the held records whose
\* unsigned 64-bit difference now - timestamp is at least 60; the records behind the
\* first record that fails this test are retained whatever their timestamps.  When
\* the held timestamps are non-decreasing in arrival order, no retained record has
\* now - timestamp >= 60.
C3_EvictsExpiredPrefix ==
    [][(Update /\ ~panicked')
       => \E k \in 0..Len(buffer) :
            /\ buffer' = SubSeq(buffer, k + 1, Len(buffer))
            /\ \A i \in 1..k : U64DiffReachesWindow(clock, buffer[i].timestamp)
            /\ k < Len(buffer) => ~U64DiffReachesWindow(clock, buffer[k + 1].timestamp)
            /\ NonDecreasingTimestamps(buffer)
                 => \A i \in (k + 1)..Len(buffer) :
                      ~(clock - buffer[i].timestamp >= WINDOW_SECONDS)]_vars
\* update() has removed one record and retained another
C3_Witness ==
    /\ last_call = <<"update", "done">>
    /\ evicted = 1
    /\ Len(buffer) = 1

\* C4: get_metrics never divides by zero: every returned rate is finite, and when the
\* window is empty after eviction or the divisor now - head.timestamp is zero, all
\* three rates are 0.
C4_SnapshotNeverDividesByZero ==
    latest # None =>
        /\ AllRatesFinite(Snapshot)
        /\ (buffer = << >> \/ snapshot_time = Head(buffer).timestamp) => AllRatesZero(Snapshot)

\* C5: a snapshot taken at time now on a window that is non-empty after eviction, with
\* elapsed = now - head.timestamp non-zero, reports each running total divided by
\* elapsed (scenario A: 300 gas, 5 txs, 3000 bytes at elapsed 10 give 30, 0.5, 300).
C5_RatesAreTotalsOverElapsed ==
    (latest # None /\ buffer # << >> /\ snapshot_time # Head(buffer).timestamp) =>
        LET elapsed == snapshot_time - Head(buffer).timestamp IN
        /\ RateIs(Snapshot.gps, total_gas, elapsed)
        /\ RateIs(Snapshot.tps, total_txs, elapsed)
        /\ RateIs(Snapshot.dps, total_data, elapsed)

\* a snapshot of a window holding exactly one record, taken while the record is
\* between 0 and 60 seconds old
SingleRecordSnapshot ==
    /\ latest # None
    /\ Len(buffer) = 1
    /\ Head(buffer).timestamp < snapshot_time
    /\ snapshot_time < Head(buffer).timestamp + WINDOW_SECONDS
\* C6: such a snapshot reports the record's gas, txs and bytes divided by
\* now - timestamp, which are non-zero, and a later snapshot of the same record reports
\* strictly smaller rates (after scenario A, snapshot(65) reports 200/55 gas per second).
C6_SingleRecordRatesDecay ==
    [][SingleRecordSnapshot' =>
         LET r == Head(buffer')
             age == snapshot_time' - r.timestamp
         IN  /\ RateIs(latest'[1].gps, r.gas, age)
             /\ RateIs(latest'[1].tps, r.txs, age)
             /\ RateIs(latest'[1].dps, IF r.size = None THEN 0 ELSE r.size[1], age)
             /\ ~IsZero(latest'[1].gps)
             /\ (SingleRecordSnapshot /\ buffer = buffer' /\ snapshot_time < snapshot_time')
                  => RateLt(latest'[1].gps, latest[1].gps)]_vars

\* C7: a snapshot taken on a window that is non-empty after eviction, with a non-zero
\* divisor now - head.timestamp, reports the block number of the tail record.
C7_LatestBlockIsTail ==
    (latest # None /\ buffer # << >> /\ snapshot_time # Head(buffer).timestamp) =>
        Snapshot.block = buffer[Len(buffer)].bn

----------------------------------------------------------------------------
(* Properties of the BlockStreamer task, checked under Spec *)

\* C8: after every successful head-number query the block numbers requested are
\* exactly (max(previousCursor, head - 10) + 1) .. head, an absent cursor counting
\* as 0, and so never more than 10.
C8_RequestsCatchUpRange ==
    pc = "join" =>
        LET prev == IF last_block = None THEN 0 ELSE last_block[1]
            head == latest_block_number[1]
            from == IF prev > head - 10 THEN prev ELSE head - 10
        IN  /\ requested = (from + 1)..head
            /\ Cardinality(requested) <= 10

\* a call of get_next_batch ends on a failed head-number query
QueryFailed ==
    /\ pc = "query"
    /\ latest_block_number' = None
    /\ <<pc, call_site>>' # <<pc, call_site>>
\* C9: when the head-number query fails, get_next_batch returns the cursor it was
\* given (None during bootstrap), requests no block, ingests nothing and raises no
\* error; the task goes on to the snapshot, the send and the sleep, none of which
\* changes the cursor, so the next tick queries with the same cursor.
C9_FailedQueryKeepsCursor ==
    [][/\ QueryFailed =>
            /\ last_block' = last_block
            /\ requested' = {}
            /\ UNCHANGED bufvars
            /\ ~panicked'
            /\ pc' = IF call_site = "bootstrap" THEN "query" ELSE "metrics"
       /\ pc \in {"metrics", "send", "sleep"} => last_block' = last_block]_vars
\* the query failed in the loop, with a cursor
C9_Witness ==
    /\ pc = "metrics"
    /\ latest_block_number = None
    /\ last_block # None

\* C10: whenever the head-number query succeeded, the cursor get_next_batch returns is
\* the queried head number, however many block fetches failed, returned nothing or
\* returned malformed blocks.
C10_CursorIsQueriedHead ==
    [][(pc = "join" /\ pc' # "join") => last_block' = latest_block_number]_vars
\* the batch returned although nothing of it was usable: its last block was dropped
\* and the window is empty
C10_Witness ==
    /\ pc = "metrics"
    /\ latest_block_number # None
    /\ last_block = latest_block_number
    /\ last_call = <<"add_block", "dropped">>
    /\ buffer = << >>

\* the block has a number and a gas_used within the u64 range
Usable(block) == block.number # None /\ block.gas_lt_u64_max

\* C11: a fetched block without a number, or with a gas-used value outside the
\* 64-bit range, is dropped without an error and without any effect on the record
\* sequence, the dedup set or the totals, and the other blocks of its batch are
\* ingested all the same: a batch leaves the buffer as the batch without its
\* unusable blocks would, and a batch of unusable blocks only leaves it unchanged.
C11_UnusableBlocksAreDropped ==
    [][(pc = "join" /\ (pc' # "join" \/ panicked')) =>
         LET r == add_blocks(BeforeBatch, SelectSeq(blocks', Usable), clock, 1)
         IN  /\ SetSelf(r.self)
             /\ panicked' = r.panic
             /\ (\A i \in 1..Len(blocks') : ~Usable(blocks'[i])) => UNCHANGED bufvars]_vars
\* a batch has handed over an unusable block and, after it, a block that is now the
\* newest record of the window
C11_Witness ==
    /\ ~panicked
    /\ buffer # << >>
    /\ \E i, j \in 1..Len(blocks) :
         /\ i < j
         /\ ~Usable(blocks[i])
         /\ Usable(blocks[j])
         /\ blocks[j].number = Some(buffer[Len(buffer)].bn)

\* the task has ended: start() returned the send error, or a panic unwound it
Terminated == panicked \/ pc = "exited"

\* C12: the task ends if and only if a publish fails because the Receiver is gone:
\* it ends by no other step, whatever the RPC answers and the blocks are, and a
\* publish attempted with the Receiver gone ends it.
C12_ExitsOnlyOnFailedPublish ==
    [][/\ (~Terminated /\ Terminated') => (pc = "send" /\ ~rx_alive)
       /\ (~Terminated /\ pc = "send" /\ ~rx_alive /\ pc' # pc) => pc' = "exited"]_vars

\* a JoinAll step: the batch was ingested, or a panic unwound the task in it
BatchStep == pc = "join" /\ (pc' # "join" \/ panicked')

Position == <<pc, call_site>>

\* C14: the task makes one bootstrap fetch without a cursor and then repeats, in
\* this order: one get_next_batch (a head query, then the batch unless the query
\* failed), one snapshot, one publish of that snapshot, one sleep.  The window and
\* the cursor change only inside get_next_batch (and the window in the snapshot's
\* eviction), so a snapshot is computed after the batch of its tick was ingested,
\* and a tick whose head query failed publishes its snapshot like any other.
C14_LoopOrder ==
    [][/\ Position' # Position =>
            \/ /\ Position = <<"query", "bootstrap">>
               /\ last_block = None
               /\ Position' \in {<<"join", "bootstrap">>, <<"query", "loop">>}
            \/ /\ Position = <<"join", "bootstrap">>
               /\ Position' = <<"query", "loop">>
            \/ /\ Position = <<"query", "loop">>
               /\ Position' \in {<<"join", "loop">>, <<"metrics", "loop">>}
            \/ /\ Position = <<"join", "loop">>
               /\ Position' = <<"metrics", "loop">>
            \/ /\ Position = <<"metrics", "loop">>
               /\ Position' = <<"send", "loop">>
               /\ latest' # None
            \/ /\ Position = <<"send", "loop">>
               /\ latest # None
               /\ \/ rx_alive /\ Position' = <<"sleep", "loop">>
                  \/ ~rx_alive /\ Position' = <<"exited", "loop">>
            \/ /\ Position = <<"sleep", "loop">>
               /\ Position' = <<"query", "loop">>
       /\ bufvars' # bufvars => pc \in {"join", "metrics"}
       /\ last_block' # last_block => pc \in {"query", "join"}
       /\ (latest = None /\ latest' # None) => pc = "metrics"]_vars
\* the snapshot of a tick whose head query failed has been published
C14_Witness ==
    /\ pc = "sleep"
    /\ latest_block_number = None
    /\ last_block # None
    /\ buffer # << >>

----------------------------------------------------------------------------
(* Further properties of the buffer, checked under BufferSpec *)

\* C16: the dedup set is exactly the set of the block numbers of the records held,
\* and no two records held have the same block number.
C16_SeenIsTheNumbersHeld ==
    /\ seen = {buffer[i].bn : i \in 1..Len(buffer)}
    /\ \A i, j \in 1..Len(buffer) : buffer[i].bn = buffer[j].bn => i = j
\* an ingest has evicted the one record held and appended its own
C16_Witness ==
    /\ last_call = <<"add_block", "pushed">>
    /\ evicted = 1
    /\ Len(buffer) = 1
    /\ seen = {buffer[1].bn}

\* the window is empty, the totals are 0 and a snapshot, if one was taken last,
\* reports rates of 0
Drained ==
    /\ buffer = << >>
    /\ total_txs = 0 /\ total_gas = 0 /\ total_data = 0
    /\ latest # None => AllRatesZero(Snapshot)

\* C17: when no record is ingested any more while the clock goes on and the owner
\* keeps taking snapshots, every record held is evicted in the end, and from then on
\* the window is empty, the totals are 0 and every snapshot reports rates of 0.
C17_WindowDrains == []~panicked => <>[]Drained
\* the last record held was evicted by a snapshot
C17_Witness ==
    /\ last_call = <<"get_metrics", "done">>
    /\ evicted > 0
    /\ Drained

----------------------------------------------------------------------------
(* Properties of the channel, checked under ChannelSpec *)

\* the sequence numbers of the messages of network n in queue, oldest first
RECURSIVE SeqsOf(_, _)
SeqsOf(queue, n) ==
    IF queue = << >> THEN << >>
    ELSE (IF Head(queue).network = n THEN <<Head(queue).seq>> ELSE << >>)
         \o SeqsOf(Tail(queue), n)

\* C13: the channel never holds more than 8 messages; no send completes while it
\* holds 8 (the sender waits until recv() has taken one); and while the consumer is
\* receiving no message is lost, repeated or overtaken by a later message of the
\* same network: what a network has sent and the consumer has not yet received is
\* in the channel, in send order.
C13_BoundedLosslessChannel ==
    [][/\ Len(channel') <= ChannelCapacity
       /\ (Len(channel) = ChannelCapacity /\ rx_alive') =>
             (sent' = sent /\ (channel' # channel => channel' = Tail(channel)))
       /\ rx_alive' =>
             \A n \in Networks :
               /\ received'[n] <= sent'[n]
               /\ SeqsOf(channel', n) =
                    [i \in 1..(sent'[n] - received'[n]) |-> received'[n] + i]]_vars
\* the channel is full of messages of both networks, some were received already,
\* and a task is waiting at its send
C13_Witness ==
    /\ rx_alive
    /\ Len(channel) = ChannelCapacity
    /\ \A n \in Networks : SeqsOf(channel, n) # << >> /\ received[n] > 0
    /\ \E n \in Networks : task_pc[n] = "send"

\* C18: for a head below the catch-up limit the subtraction head - 10 does not
\* underflow, and the range requested is previous cursor + 1 .. head (1 .. head
\* without a cursor).
C18_RangeBelowCatchUpLimit ==
    [][(/\ pc = "query"
        /\ latest_block_number' # None
        /\ Unwrap(latest_block_number') \in 0..(CatchUpLimit - 1))
       => /\ ~panicked'
          /\ requested' = ((IF IsSome(last_block) THEN Unwrap(last_block) ELSE 0) + 1)
                            .. Unwrap(latest_block_number')]_vars

\* C19: a head record whose timestamp is later than the clock is left in the window
\* by update and get_metrics, with its contributions in the totals, and the
\* subtraction now - timestamp does not underflow.
C19_FutureHeadIsKept ==
    [][(/\ buffer # << >>
        /\ buffer[1].timestamp > clock
        /\ buffer[1].timestamp > clock'
        /\ last_call'[1] \in {"update", "get_metrics"})
       => /\ ~panicked'
          /\ UNCHANGED bufvars]_vars

\* the head just returned is not below the cursor, which is the head of the last
\* query that succeeded
HeadNotBelowCursor(head) ==
    /\ last_block # None
    /\ head # None
    /\ Unwrap(head) >= Unwrap(last_block)

\* C20: with heads that do not decrease, the range of a tick starts strictly above
\* the cursor the last successful tick returned, and no block the tick before got
\* back, ingested or dropped, is requested again.
C20_CursorPreventsRefetch ==
    [][(pc = "query" /\ HeadNotBelowCursor(latest_block_number'))
       => /\ \A bn \in requested' : bn > Unwrap(last_block)
          /\ \A i \in 1..Len(blocks) :
                 blocks[i].number # None => Unwrap(blocks[i].number) \notin requested']_vars
====
